---- MODULE Spec2Model ----
(***************************************************************************)
(* Model of deploy_to_play_store.py: the release publisher.  One process   *)
(* runs deploy() under the top-level try/except of the __main__ block.     *)
(* The Google Play backend is the environment: every request's execute()   *)
(* either returns a response or raises an exception carrying a text.       *)
(*                                                                         *)
(* Texts.  An error text (str(e)) is a finite sequence of text fragments;  *)
(* the literal the except clause searches for is the two-fragment sequence *)
(* DraftAppMsg, and Python's `in` on strings is substring search.  A       *)
(* console line is the sequence of the fragments of its f-string.          *)
(***************************************************************************)
EXTENDS Integers, Sequences, FiniteSets, TLC

\* ---- configuration constants (lines 9-12) --------------------------------
PACKAGE_NAME == "com.ifautofab"
BUNDLE_PATH == "app/build/outputs/bundle/release/app-release.aab"
KEY_FILE == "play-store-key.json"
TRACK == "internal"

\* ---- bounds --------------------------------------------------------------
MaxErrLen == 3      \* longest error text, in fragments
MaxEdit == 2        \* number of distinct edit ids the backend may hand out
MaxVersion == 2     \* largest version code the backend may assign

\* ---- texts ---------------------------------------------------------------
\* The literal of line 70, cut in two fragments.
DraftAppMsg == <<"Only releases with status draft", " may be created on draft app">>

Fragments == {DraftAppMsg[1], DraftAppMsg[2]}

RECURSIVE SeqsUpTo(_, _)
SeqsUpTo(S, n) ==
    IF n = 0 THEN {<<>>}
    ELSE LET shorter == SeqsUpTo(S, n - 1)
         IN  shorter \cup {Append(s, x) : s \in shorter, x \in S}

\* The texts an exception raised by a library call may carry.
ErrTexts == SeqsUpTo(Fragments, MaxErrLen)

\* Python: needle in hay  (substring search on str).
Contains(needle, hay) ==
    \E i \in 1..(Len(hay) - Len(needle) + 1) :
        SubSeq(hay, i, i + Len(needle) - 1) = needle

\* Python: str(n) for a non-negative int.
Digit == <<"0", "1", "2", "3", "4", "5", "6", "7", "8", "9">>

RECURSIVE Str(_)
Str(n) == IF n < 10 THEN Digit[n + 1] ELSE Str(n \div 10) \o Digit[(n % 10) + 1]

\* The edit ids and version codes the backend may answer with.
EditIds == {"S" \o Str(i) : i \in 1..MaxEdit}
VersionCodes == 1..MaxVersion

VARIABLES
    keyExists,      \* os.path.exists(KEY_FILE)
    bundleExists,   \* os.path.exists(BUNDLE_PATH)
    pc,             \* position of the process
    edit_id,        \* local of deploy(), "" before line 32
    version_code,   \* local of deploy(), 0 before line 46
    exc,            \* the exception in flight or last caught
    calls,          \* history: the backend requests executed, in order
    out,            \* the console: lines printed, in order
    exitCode,       \* process exit status, -1 while running
    decisions,      \* history: what every except clause run so far decided, and on what
    runs            \* 1 in the first invocation of the script, 2 in the second

vars == <<keyExists, bundleExists, pc, edit_id, version_code, exc, calls, out,
          exitCode, decisions, runs>>

NoExc == [raised |-> FALSE, text |-> <<>>, origin |-> "none"]

Raise(text, origin) == [raised |-> TRUE, text |-> text, origin |-> origin]

\* One executed request: what was asked, and what the backend answered.
Call(op, status, edit, version, ok, err) ==
    [op |-> op, status |-> status, edit |-> edit, version |-> version,
     ok |-> ok, err |-> err]

\* print(...): one more line on the console.
Emit(lines) == out' = out \o lines

Init ==
    /\ keyExists \in BOOLEAN
    /\ bundleExists \in BOOLEAN
    /\ pc = "check_key"
    /\ edit_id = ""
    /\ version_code = 0
    /\ exc = NoExc
    /\ calls = <<>>
    /\ out = <<>>
    /\ exitCode = -1
    /\ decisions = {}
    /\ runs = 1

\* CheckKey without the `return` of line 17.
CheckKeyNoReturn ==
    /\ pc = "check_key"
    /\ IF ~keyExists
       THEN Emit(<< <<"Error: ", KEY_FILE, " not found in project root.">> >>)
       ELSE UNCHANGED out
    /\ pc' = "check_bundle"
    /\ UNCHANGED <<keyExists, bundleExists, edit_id, version_code, exc, calls,
                   exitCode, decisions, runs>>

\* lines 15-17
CheckKey ==
    /\ pc = "check_key"
    /\ IF ~keyExists
       THEN /\ Emit(<< <<"Error: ", KEY_FILE, " not found in project root.">> >>)
            /\ pc' = "returned"
       ELSE /\ pc' = "check_bundle"
            /\ UNCHANGED out
    /\ UNCHANGED <<keyExists, bundleExists, edit_id, version_code, exc, calls,
                   exitCode, decisions, runs>>

\* CheckBundle without the `return` of line 21.
CheckBundleNoReturn ==
    /\ pc = "check_bundle"
    /\ IF ~bundleExists
       THEN Emit(<< <<"Error: ", BUNDLE_PATH,
                      " not found. Did you run './gradlew :app:bundleRelease'?">> >>)
       ELSE UNCHANGED out
    /\ pc' = "authenticate"
    /\ UNCHANGED <<keyExists, bundleExists, edit_id, version_code, exc, calls,
                   exitCode, decisions, runs>>

\* lines 19-21
CheckBundle ==
    /\ pc = "check_bundle"
    /\ IF ~bundleExists
       THEN /\ Emit(<< <<"Error: ", BUNDLE_PATH,
                      " not found. Did you run './gradlew :app:bundleRelease'?">> >>)
            /\ pc' = "returned"
       ELSE /\ pc' = "authenticate"
            /\ UNCHANGED out
    /\ UNCHANGED <<keyExists, bundleExists, edit_id, version_code, exc, calls,
                   exitCode, decisions, runs>>

\* lines 23-27: the credentials are parsed and the client is built; the
\* library raises when the file is there but is not a usable key.
Authenticate ==
    /\ pc = "authenticate"
    /\ Emit(<< <<"Starting deployment for ", PACKAGE_NAME, "...">> >>)
    /\ \/ /\ pc' = "open"
          /\ UNCHANGED exc
       \/ \E text \in ErrTexts :
            /\ exc' = Raise(text, "authenticate")
            /\ pc' = "main_except"
    /\ UNCHANGED <<keyExists, bundleExists, edit_id, version_code, calls,
                   exitCode, decisions, runs>>

\* lines 29-34: edits().insert(...).execute()
OpenEdit ==
    /\ pc = "open"
    /\ \/ \E id \in EditIds :
            /\ calls' = Append(calls, Call("open", "", "", "", TRUE, <<>>))
            /\ edit_id' = id
            /\ Emit(<< <<"Created edit with ID: ", id>> >>)
            /\ pc' = "upload"
            /\ UNCHANGED exc
       \/ \E text \in ErrTexts :
            /\ calls' = Append(calls, Call("open", "", "", "", FALSE, text))
            /\ exc' = Raise(text, "open")
            /\ pc' = "main_except"
            /\ UNCHANGED <<edit_id, out>>
    /\ UNCHANGED <<keyExists, bundleExists, version_code, exitCode, decisions, runs>>


\* The upload placed inside the try block: its exception reaches line 69.
UploadInsideTry ==
    /\ pc = "upload"
    /\ \/ \E v \in VersionCodes :
            /\ calls' = Append(calls, Call("upload", "", edit_id, "", TRUE, <<>>))
            /\ version_code' = v
            /\ Emit(<< <<"Uploading ", BUNDLE_PATH, "...">>,
                       <<"Successfully uploaded bundle version ", Str(v)>> >>)
            /\ pc' = "assign_completed"
            /\ UNCHANGED exc
       \/ \E text \in ErrTexts :
            /\ calls' = Append(calls, Call("upload", "", edit_id, "", FALSE, text))
            /\ Emit(<< <<"Uploading ", BUNDLE_PATH, "...">> >>)
            /\ exc' = Raise(text, "upload")
            /\ pc' = "except"
            /\ UNCHANGED version_code
    /\ UNCHANGED <<keyExists, bundleExists, edit_id, exitCode, decisions, runs>>

\* lines 36-47: edits().bundles().upload(...).execute()
Upload ==
    /\ pc = "upload"
    /\ \/ \E v \in VersionCodes :
            /\ calls' = Append(calls, Call("upload", "", edit_id, "", TRUE, <<>>))
            /\ version_code' = v
            /\ Emit(<< <<"Uploading ", BUNDLE_PATH, "...">>,
                       <<"Successfully uploaded bundle version ", Str(v)>> >>)
            /\ pc' = "assign_completed"
            /\ UNCHANGED exc
       \/ \E text \in ErrTexts :
            /\ calls' = Append(calls, Call("upload", "", edit_id, "", FALSE, text))
            /\ Emit(<< <<"Uploading ", BUNDLE_PATH, "...">> >>)
            /\ exc' = Raise(text, "upload")
            /\ pc' = "main_except"
            /\ UNCHANGED version_code
    /\ UNCHANGED <<keyExists, bundleExists, edit_id, exitCode, decisions, runs>>

\* line 51
AssignLine(status) ==
    <<"Assigning version ", Str(version_code), " to ", TRACK, " track as ", status, "...">>


\* update_track without the progress line of line 51.
update_trackNoLine(status, next, handler) ==
    /\ \/ /\ calls' = Append(calls, Call("assign", status, edit_id,
                                         Str(version_code), TRUE, <<>>))
          /\ pc' = next
          /\ UNCHANGED exc
       \/ \E text \in ErrTexts :
            /\ calls' = Append(calls, Call("assign", status, edit_id,
                                           Str(version_code), FALSE, text))
            /\ exc' = Raise(text, "assign_" \o status)
            /\ pc' = handler
    /\ UNCHANGED <<keyExists, bundleExists, edit_id, version_code, exitCode,
                   decisions, runs, out>>


\* update_track whose draft assignment names the next version code.
update_trackNextVersion(status, next, handler) ==
    /\ Emit(<<AssignLine(status)>>)
    /\ LET v == IF status = "draft" THEN version_code + 1 ELSE version_code
       IN  \/ /\ calls' = Append(calls, Call("assign", status, edit_id, Str(v), TRUE, <<>>))
              /\ pc' = next
              /\ UNCHANGED exc
           \/ \E text \in ErrTexts :
                /\ calls' = Append(calls, Call("assign", status, edit_id, Str(v),
                                               FALSE, text))
                /\ exc' = Raise(text, "assign_" \o status)
                /\ pc' = handler
    /\ UNCHANGED <<keyExists, bundleExists, edit_id, version_code, exitCode,
                   decisions, runs>>

\* lines 50-63: update_track(status); the call returns to `next` and an
\* exception unwinds to `handler`.
update_track(status, next, handler) ==
    /\ Emit(<<AssignLine(status)>>)
    /\ \/ /\ calls' = Append(calls, Call("assign", status, edit_id,
                                         Str(version_code), TRUE, <<>>))
          /\ pc' = next
          /\ UNCHANGED exc
       \/ \E text \in ErrTexts :
            /\ calls' = Append(calls, Call("assign", status, edit_id,
                                           Str(version_code), FALSE, text))
            /\ exc' = Raise(text, "assign_" \o status)
            /\ pc' = handler
    /\ UNCHANGED <<keyExists, bundleExists, edit_id, version_code, exitCode,
                   decisions, runs>>

\* edits().commit(...).execute() of lines 68 and 73
commit(next, handler, origin) ==
    /\ \/ /\ calls' = Append(calls, Call("commit", "", edit_id, "", TRUE, <<>>))
          /\ pc' = next
          /\ UNCHANGED exc
       \/ \E text \in ErrTexts :
            /\ calls' = Append(calls, Call("commit", "", edit_id, "", FALSE, text))
            /\ exc' = Raise(text, origin)
            /\ pc' = handler
    /\ UNCHANGED <<keyExists, bundleExists, edit_id, version_code, exitCode,
                   decisions, runs>>

\* line 66, inside the try
AssignCompleted ==
    /\ pc = "assign_completed"
    /\ update_track("completed", "commit", "except")

\* The first commit followed by the second one as well (line 73 after the try).
CommitThenCommitAgain ==
    /\ pc = "commit"
    /\ Emit(<< <<"Committing changes to Google Play...">> >>)
    /\ commit("commit_fallback", "except", "commit")

\* lines 67-68, inside the try
Commit ==
    /\ pc = "commit"
    /\ Emit(<< <<"Committing changes to Google Play...">> >>)
    /\ commit("success", "except", "commit")

\* What an observer notes when the except clause has chosen its branch.
Decision(fallback) ==
    [run |-> runs, text |-> exc.text, fallback |-> fallback,
     ncalls |-> Len(calls), edit |-> edit_id]

\* The except clause taking the fallback whatever the text (no test at line 70).
ExceptAlwaysFallback ==
    /\ pc = "except"
    /\ decisions' = decisions \cup {Decision(TRUE)}
    /\ Emit(<< <<"App is still in 'Draft' state. Falling back to draft release...">> >>)
    /\ pc' = "assign_draft"
    /\ UNCHANGED <<keyExists, bundleExists, edit_id, version_code, exc, calls,
                   exitCode, runs>>

\* The except clause going straight to the second commit (no line 72).
ExceptSkipsAssign ==
    /\ pc = "except"
    /\ LET fallback == Contains(DraftAppMsg, exc.text)
       IN  /\ decisions' = decisions \cup {Decision(fallback)}
           /\ IF fallback
              THEN /\ Emit(<< <<"App is still in 'Draft' state. Falling back to draft release...">> >>)
                   /\ pc' = "commit_fallback"
              ELSE /\ pc' = "main_except"
                   /\ UNCHANGED out
    /\ UNCHANGED <<keyExists, bundleExists, edit_id, version_code, exc, calls,
                   exitCode, runs>>

\* The except clause falling back only when it was the assignment that failed.
ExceptOnAssignOnly ==
    /\ pc = "except"
    /\ LET fallback == Contains(DraftAppMsg, exc.text) /\ exc.origin = "assign_completed"
       IN  /\ decisions' = decisions \cup {Decision(fallback)}
           /\ IF fallback
              THEN /\ Emit(<< <<"App is still in 'Draft' state. Falling back to draft release...">> >>)
                   /\ pc' = "assign_draft"
              ELSE /\ pc' = "main_except"
                   /\ UNCHANGED out
    /\ UNCHANGED <<keyExists, bundleExists, edit_id, version_code, exc, calls,
                   exitCode, runs>>


\* The fallback starting the pipeline over with a new edit.
ExceptReopens ==
    /\ pc = "except"
    /\ LET fallback == Contains(DraftAppMsg, exc.text)
       IN  /\ decisions' = decisions \cup {Decision(fallback)}
           /\ IF fallback
              THEN /\ Emit(<< <<"App is still in 'Draft' state. Falling back to draft release...">> >>)
                   /\ pc' = "open"
              ELSE /\ pc' = "main_except"
                   /\ UNCHANGED out
    /\ UNCHANGED <<keyExists, bundleExists, edit_id, version_code, exc, calls,
                   exitCode, runs>>

\* The except clause without the `else: raise e` of lines 74-75.
ExceptSwallows ==
    /\ pc = "except"
    /\ LET fallback == Contains(DraftAppMsg, exc.text)
       IN  /\ decisions' = decisions \cup {Decision(fallback)}
           /\ IF fallback
              THEN /\ Emit(<< <<"App is still in 'Draft' state. Falling back to draft release...">> >>)
                   /\ pc' = "assign_draft"
              ELSE /\ pc' = "success"
                   /\ UNCHANGED out
    /\ UNCHANGED <<keyExists, bundleExists, edit_id, version_code, exc, calls,
                   exitCode, runs>>

\* lines 69-75: the except clause decides on str(e) alone
Except ==
    /\ pc = "except"
    /\ LET fallback == Contains(DraftAppMsg, exc.text)
       IN  /\ decisions' = decisions \cup {Decision(fallback)}
           /\ IF fallback
              THEN /\ Emit(<< <<"App is still in 'Draft' state. Falling back to draft release...">> >>)
                   /\ pc' = "assign_draft"
              ELSE /\ pc' = "main_except"
                   /\ UNCHANGED out
    /\ UNCHANGED <<keyExists, bundleExists, edit_id, version_code, exc, calls,
                   exitCode, runs>>

\* The fallback re-submitting the assignment with the status unchanged.
AssignDraftAsCompleted ==
    /\ pc = "assign_draft"
    /\ update_track("completed", "commit_fallback", "main_except")


\* The fallback assignment guarded by the same except clause again.
AssignDraftRetried ==
    /\ pc = "assign_draft"
    /\ update_track("draft", "commit_fallback", "except")

\* line 72, inside the except clause
AssignDraft ==
    /\ pc = "assign_draft"
    /\ update_track("draft", "commit_fallback", "main_except")

\* The second commit guarded by the same except clause (a retry loop).
CommitFallbackRetried ==
    /\ pc = "commit_fallback"
    /\ commit("success", "except", "commit_fallback")
    /\ UNCHANGED out

\* line 73, inside the except clause
CommitFallback ==
    /\ pc = "commit_fallback"
    /\ commit("success", "main_except", "commit_fallback")
    /\ UNCHANGED out

SuccessLine ==
    <<"Deployment successful! Check the Google Play Console to review and roll out.">>

\* line 77
Success ==
    /\ pc = "success"
    /\ Emit(<<SuccessLine>>)
    /\ pc' = "returned"
    /\ UNCHANGED <<keyExists, bundleExists, edit_id, version_code, exc, calls,
                   exitCode, decisions, runs>>

\* lines 79-81: deploy() returned, the interpreter exits with status 0
MainReturn ==
    /\ pc = "returned"
    /\ exitCode' = 0
    /\ pc' = "exited"
    /\ UNCHANGED <<keyExists, bundleExists, edit_id, version_code, exc, calls,
                   out, decisions, runs>>

\* The top level reporting a failure without the exception's text.
MainExceptNoText ==
    /\ pc = "main_except"
    /\ Emit(<< <<"Error during deployment: ">> >>)
    /\ exitCode' = 1
    /\ pc' = "exited"
    /\ UNCHANGED <<keyExists, bundleExists, edit_id, version_code, exc, calls,
                   decisions, runs>>

\* The top level reporting the failure without sys.exit(1).
MainExceptNoExit ==
    /\ pc = "main_except"
    /\ Emit(<< <<"Error during deployment: ">> \o exc.text >>)
    /\ exitCode' = 0
    /\ pc' = "exited"
    /\ UNCHANGED <<keyExists, bundleExists, edit_id, version_code, exc, calls,
                   decisions, runs>>

\* lines 82-84
MainExcept ==
    /\ pc = "main_except"
    /\ Emit(<< <<"Error during deployment: ">> \o exc.text >>)
    /\ exitCode' = 1
    /\ pc' = "exited"
    /\ UNCHANGED <<keyExists, bundleExists, edit_id, version_code, exc, calls,
                   decisions, runs>>

Next ==
    \/ CheckKey
    \/ CheckBundle
    \/ Authenticate
    \/ OpenEdit
    \/ Upload
    \/ AssignCompleted
    \/ Commit
    \/ Except
    \/ AssignDraft
    \/ CommitFallback
    \/ Success
    \/ MainReturn
    \/ MainExcept

Spec == Init /\ [][Next]_vars


\* The interpreter runs the statements one after the other and every
\* request's execute() returns or raises: a step that can be taken is taken.
FairSpec == Spec /\ WF_vars(Next)

\* The script is invoked again: a fresh process, with nothing carried over
\* but the observer's record of earlier decisions.
NewRun ==
    /\ pc = "exited"
    /\ runs = 1
    /\ runs' = 2
    /\ keyExists' \in BOOLEAN
    /\ bundleExists' \in BOOLEAN
    /\ pc' = "check_key"
    /\ edit_id' = ""
    /\ version_code' = 0
    /\ exc' = NoExc
    /\ calls' = <<>>
    /\ out' = <<>>
    /\ exitCode' = -1
    /\ UNCHANGED decisions

NextRuns == Next \/ NewRun

SpecRuns == Init /\ [][NextRuns]_vars

\* ---- vocabulary of the properties ------------------------------------------
Terminated == pc = "exited"

\* Some printed line has the fragment `part`.
Names(part) == \E i \in DOMAIN out : \E j \in DOMAIN out[i] : out[i][j] = part

\* The console shows exactly one line, an "Error: " diagnostic about `path`.
OnlyConfigError(path) ==
    /\ Len(out) = 1
    /\ out[1][1] = "Error: "
    /\ out[1][2] = path

\* C1: in a run where the credential file is absent no backend operation is
\* ever invoked, and the run reports a configuration error naming the
\* credential file (the only line it prints) and raises nothing.
C1_NoKeyNoBackend ==
    ~keyExists =>
        /\ calls = <<>>
        /\ exc = NoExc
        /\ pc \in {"check_key", "returned", "exited"}
        /\ pc # "check_key" => OnlyConfigError(KEY_FILE)

C1_Witness == ~keyExists /\ Terminated /\ Names(KEY_FILE)

\* C2 as stated: in a run where the artifact file is absent, the credential
\* file present or not, no backend operation is invoked and the finished run
\* has reported an error naming the artifact path.
C2_AsStated ==
    ~bundleExists =>
        /\ calls = <<>>
        /\ Terminated => Names(BUNDLE_PATH)

\* C2 amended: in a run where the artifact file is absent no backend
\* operation is invoked; when the credential file is present the run reports
\* a configuration error naming the artifact path, and when the credential
\* file is absent too it reports the credential file only.
C2_NoBundleNoBackend ==
    ~bundleExists =>
        /\ calls = <<>>
        /\ exc = NoExc
        /\ pc \in {"check_key", "check_bundle", "returned", "exited"}
        /\ pc \in {"returned", "exited"} =>
              IF keyExists
              THEN OnlyConfigError(BUNDLE_PATH)
              ELSE OnlyConfigError(KEY_FILE) /\ ~Names(BUNDLE_PATH)

C2_Witness == keyExists /\ ~bundleExists /\ Terminated /\ Names(BUNDLE_PATH)

\* ---- the sequence of backend calls ------------------------------------------
Shape(c) == <<c.op, c.status, c.ok>>

Shapes == [i \in 1..Len(calls) |-> Shape(calls[i])]

Opened == <<"open", "", TRUE>>
Uploaded == <<"upload", "", TRUE>>
Assigned(status) == <<"assign", status, TRUE>>
AssignFailed(status) == <<"assign", status, FALSE>>
Committed == <<"commit", "", TRUE>>
CommitFailed == <<"commit", "", FALSE>>

\* The run printed the success message last.
Succeeded == out # <<>> /\ out[Len(out)] = SuccessLine

\* The top level printed `text` as the error of the run, last.
Surfaced(text) == out # <<>> /\ out[Len(out)] = <<"Error during deployment: ">> \o text

AssignCompletedAccepted == Len(calls) >= 3 /\ Shape(calls[3]) = Assigned("completed")

AssignCompletedRejected == Len(calls) >= 3 /\ Shape(calls[3]) = AssignFailed("completed")

\* C3 as stated: in every successful run in which the backend accepted
\* assign(completed), the backend calls are exactly open, upload,
\* assign(completed), commit, each made once.
C3_AsStated ==
    (Succeeded /\ AssignCompletedAccepted) =>
        Shapes = <<Opened, Uploaded, Assigned("completed"), Committed>>

\* C3 amended: in every successful run in which the backend accepted
\* assign(completed), the backend calls are exactly open, upload,
\* assign(completed), commit when that commit is accepted too; when that commit
\* is rejected with a text containing the draft-app string they are open,
\* upload, assign(completed), commit (failed), assign(draft), commit.
C3_SuccessSequence ==
    (Succeeded /\ AssignCompletedAccepted) =>
        \/ Shapes = <<Opened, Uploaded, Assigned("completed"), Committed>>
        \/ /\ Shapes = <<Opened, Uploaded, Assigned("completed"), CommitFailed,
                         Assigned("draft"), Committed>>
           /\ Contains(DraftAppMsg, calls[4].err)

C3_Witness ==
    /\ Terminated
    /\ Succeeded
    /\ Shapes = <<Opened, Uploaded, Assigned("completed"), Committed>>

\* C4 as stated: in every finished run in which assign(completed) failed with
\* a text containing the draft-app string, the backend calls are open, upload,
\* assign(completed) (failed), assign(draft), commit.
C4_AsStated ==
    (Terminated /\ AssignCompletedRejected /\ Contains(DraftAppMsg, calls[3].err)) =>
        /\ Len(calls) = 5
        /\ Shapes[1] = Opened
        /\ Shapes[2] = Uploaded
        /\ Shapes[4][1] = "assign" /\ Shapes[4][2] = "draft"
        /\ Shapes[5][1] = "commit"

\* C4 amended: in every run in which assign(completed) failed with a text
\* containing the draft-app string, the backend calls are open, upload,
\* assign(completed) (failed), assign(draft), and then commit exactly when
\* assign(draft) was accepted; nothing is called between the failed
\* assign(completed) and assign(draft), and the except clause takes the
\* fallback branch, never the re-raise.
C4_FallbackSequence ==
    (AssignCompletedRejected /\ Contains(DraftAppMsg, calls[3].err)) =>
        /\ Shapes[1] = Opened
        /\ Shapes[2] = Uploaded
        /\ Len(calls) <= 5
        /\ Len(calls) >= 4 => Shapes[4][1] = "assign" /\ Shapes[4][2] = "draft"
        /\ Len(calls) = 5 => Shapes[4] = Assigned("draft") /\ Shapes[5][1] = "commit"
        /\ Terminated => Len(calls) = (IF calls[4].ok THEN 5 ELSE 4)
        /\ \A d \in decisions : d.run = runs => d.fallback
        /\ pc # "except" => \E d \in decisions : d.run = runs /\ d.ncalls = 3

C4_Witness ==
    /\ Terminated
    /\ Succeeded
    /\ Shapes = <<Opened, Uploaded, AssignFailed("completed"), Assigned("draft"), Committed>>
    /\ Contains(DraftAppMsg, calls[3].err)
    /\ calls[3].err # DraftAppMsg

\* C5: in every run in which assign(completed) fails with a text that does
\* not contain the draft-app string, that is the last backend call (no
\* assign(draft), no commit), and the run ends with exit status 1 and that
\* same text printed by the top level.
C5_OtherErrorAborts ==
    (AssignCompletedRejected /\ ~Contains(DraftAppMsg, calls[3].err)) =>
        /\ Len(calls) = 3
        /\ pc \in {"except", "main_except", "exited"}
        /\ exc = Raise(calls[3].err, "assign_completed")
        /\ Terminated => exitCode = 1 /\ Surfaced(calls[3].err)

C5_Witness ==
    /\ Terminated
    /\ AssignCompletedRejected
    /\ ~Contains(DraftAppMsg, calls[3].err)
    /\ calls[3].err # <<>>
    /\ Surfaced(calls[3].err)

\* A failed call is the last one and its text is what the finished run reports.
FatalAt(i) ==
    /\ i = Len(calls)
    /\ pc \in {"except", "main_except", "exited"}
    /\ Terminated => exitCode = 1 /\ Surfaced(calls[i].err)

\* C6 as stated: a failed commit, whatever its text, is the last backend
\* call of the run, and the run ends reporting that error.
C6_AsStated ==
    \A i \in DOMAIN calls : Shape(calls[i]) = CommitFailed => FatalAt(i)

\* C6 amended: a failed commit is the last backend call of the run and the
\* run ends reporting that error, unless it is the commit of the try block
\* (the one after assign(completed)) and its text contains the draft-app
\* string: that one is followed by assign(draft) and, when assign(draft) is
\* accepted, by one more commit, and by nothing else.
C6_CommitFailure ==
    \A i \in DOMAIN calls :
        Shape(calls[i]) = CommitFailed =>
            IF calls[i - 1].status = "completed" /\ Contains(DraftAppMsg, calls[i].err)
            THEN /\ Len(calls) <= i + 2
                 /\ Len(calls) > i => /\ calls[i + 1].op = "assign"
                                      /\ calls[i + 1].status = "draft"
                 /\ Len(calls) = i + 2 => calls[i + 1].ok /\ calls[i + 2].op = "commit"
                 /\ Terminated => Len(calls) = (IF calls[i + 1].ok THEN i + 2 ELSE i + 1)
            ELSE FatalAt(i)

C6_Witness ==
    /\ Terminated
    /\ Len(calls) = 6
    /\ Shape(calls[6]) = CommitFailed
    /\ Contains(DraftAppMsg, calls[6].err)
    /\ Surfaced(calls[6].err)

\* C7: a commit that succeeded is the last backend call of the run, so the
\* session is finalized at most once and nothing is called afterwards.
C7_FinalizedOnce ==
    \A i \in DOMAIN calls :
        Shape(calls[i]) = Committed =>
            /\ i = Len(calls)
            /\ pc \in {"success", "returned", "exited"}

C7_Witness ==
    /\ Terminated
    /\ Shapes = <<Opened, Uploaded, Assigned("completed"), CommitFailed,
                  Assigned("draft"), Committed>>

\* C8: every commit comes immediately after an assignment that succeeded.
C8_CommitAfterAssignment ==
    \A i \in DOMAIN calls :
        calls[i].op = "commit" =>
            /\ i > 1
            /\ calls[i - 1].op = "assign"
            /\ calls[i - 1].ok

C8_Witness ==
    /\ Len(calls) = 5
    /\ Shape(calls[3]) = AssignFailed("completed")
    /\ Shape(calls[4]) = Assigned("draft")
    /\ calls[5].op = "commit"

\* The finished run ended in the top-level except clause.
CaughtAtTop == out # <<>> /\ out[Len(out)][1] = "Error during deployment: "

BackendOrigins ==
    {"open", "upload", "assign_completed", "commit", "assign_draft", "commit_fallback"}

ExitZeroCases == Succeeded \/ ~keyExists \/ ~bundleExists

AssignmentLineOf(v, status) ==
    <<"Assigning version ", v, " to ", TRACK, " track as ", status, "...">>

\* Both files present, open and upload accepted, assign(completed) rejected
\* with the draft-app text, assign(draft) and commit accepted.
DraftAppScenario ==
    /\ keyExists /\ bundleExists
    /\ Shapes = <<Opened, Uploaded, AssignFailed("completed"), Assigned("draft"), Committed>>
    /\ Contains(DraftAppMsg, calls[3].err)

\* C11: when the run of the draft-app scenario has finished, the console
\* shows the assignment line of the uploaded version as completed, later the
\* assignment line of the same version as draft, its last line is the success
\* message, and the exit status is 0.
C11_DraftScenarioTrace ==
    (Terminated /\ DraftAppScenario) =>
        /\ \E i, j \in DOMAIN out :
              /\ i < j
              /\ out[i] = AssignmentLineOf(Str(version_code), "completed")
              /\ out[j] = AssignmentLineOf(Str(version_code), "draft")
              /\ \E k \in DOMAIN out :
                    k < i /\ out[k] = <<"Successfully uploaded bundle version ",
                                        Str(version_code)>>
        /\ out[Len(out)] = SuccessLine
        /\ Len(out) = 8
        /\ exitCode = 0

C11_Witness ==
    /\ Terminated
    /\ DraftAppScenario
    /\ version_code = MaxVersion
    /\ exitCode = 0

\* The except clauses the current run has executed.
DecisionsOfRun == {d \in decisions : d.run = runs}

\* A failed call outside the try block: it is the last call, the exception
\* goes straight to the top level, and the finished run reports its text
\* with exit status 1.
AbortsAt(i) ==
    /\ i = Len(calls)
    /\ pc \in {"main_except", "exited"}
    /\ exc.text = calls[i].err
    /\ Terminated => exitCode = 1 /\ Surfaced(calls[i].err)

\* Call i belongs to the fallback: assign(draft), or the commit after it.
OnFallbackPath(i) ==
    \/ calls[i].op = "assign" /\ calls[i].status = "draft"
    \/ calls[i].op = "commit" /\ calls[i - 1].status = "draft"

\* C12: assign(draft) is invoked at most once in a run and the except clause
\* runs at most once; a failed assign(draft), or a failed commit after
\* assign(draft), is the last backend call and ends the run with that error
\* and exit status 1, whatever its text.
C12_FallbackOnce ==
    /\ Cardinality({i \in DOMAIN calls : calls[i].op = "assign" /\ calls[i].status = "draft"}) <= 1
    /\ Cardinality(DecisionsOfRun) <= 1
    /\ \A i \in DOMAIN calls : (OnFallbackPath(i) /\ ~calls[i].ok) => AbortsAt(i)

C12_Witness ==
    /\ Terminated
    /\ exitCode = 1
    /\ \E i \in DOMAIN calls :
          /\ calls[i].op = "commit"
          /\ OnFallbackPath(i)
          /\ ~calls[i].ok
          /\ Contains(DraftAppMsg, calls[i].err)

\* C13: a failed open or upload is the last backend call of the run; the
\* except clause of line 69 is never reached, and the finished run reports
\* that error with exit status 1, whatever the text.
C13_OpenUploadFailure ==
    \A i \in DOMAIN calls :
        (calls[i].op \in {"open", "upload"} /\ ~calls[i].ok) =>
            /\ AbortsAt(i)
            /\ DecisionsOfRun = {}

C13_Witness ==
    /\ Terminated
    /\ exitCode = 1
    /\ Len(calls) = 2
    /\ Shape(calls[2]) = <<"upload", "", FALSE>>
    /\ Contains(DraftAppMsg, calls[2].err)

\* C14: open is the first backend call and no other call is an open; upload
\* is the second call, made after an accepted open, and no other call is an
\* upload; every assign comes after an accepted open and an accepted upload.
\* So the fallback never opens a session or uploads the artifact again.
C14_StrictOrder ==
    \A i \in DOMAIN calls :
        /\ calls[i].op = "open" <=> i = 1
        /\ calls[i].op = "upload" <=> i = 2
        /\ i >= 2 => Shape(calls[1]) = Opened
        /\ i >= 3 => Shape(calls[2]) = Uploaded
        /\ i >= 3 => calls[i].op \in {"assign", "commit"}
        /\ i > 1 => calls[i - 1].ok \/ (i - 1 \in {3, 4} /\ DecisionsOfRun # {})

C14_Witness ==
    /\ Terminated
    /\ Len(calls) = 6
    /\ Shape(calls[5]) = Assigned("draft")

\* The success message is on the console.
SuccessPrinted == \E i \in DOMAIN out : out[i] = SuccessLine

\* C15: the success message is printed only when the last backend call is a
\* commit that succeeded, made right after an assignment that succeeded; it
\* is printed once, as the last line, never in a run that aborted on a
\* missing file and never in a run that ends with an error.
C15_SuccessOnlyAfterCommit ==
    SuccessPrinted =>
        /\ Len(calls) >= 4
        /\ Shape(calls[Len(calls)]) = Committed
        /\ calls[Len(calls) - 1].op = "assign" /\ calls[Len(calls) - 1].ok
        /\ keyExists /\ bundleExists
        /\ Succeeded
        /\ Cardinality({i \in DOMAIN out : out[i] = SuccessLine}) = 1
        /\ ~CaughtAtTop
        /\ pc \in {"returned", "exited"}
        /\ exitCode # 1

C15_Witness ==
    /\ Terminated
    /\ SuccessPrinted
    /\ exitCode = 0
    /\ Shape(calls[3]) = AssignFailed("completed")

\* The three ways a run ends.
DoneOutcome == Succeeded /\ exitCode = 0

EarlyAbortOutcome ==
    /\ ~keyExists \/ ~bundleExists
    /\ calls = <<>>
    /\ Len(out) = 1 /\ out[1][1] = "Error: "
    /\ exitCode = 0

ErrorAbortOutcome == CaughtAtTop /\ exitCode = 1

ExactlyOneOutcome ==
    \/ DoneOutcome /\ ~EarlyAbortOutcome /\ ~ErrorAbortOutcome
    \/ ~DoneOutcome /\ EarlyAbortOutcome /\ ~ErrorAbortOutcome
    \/ ~DoneOutcome /\ ~EarlyAbortOutcome /\ ErrorAbortOutcome

\* C16: when every step that can be taken is eventually taken, every run
\* eventually terminates, a terminated run has exactly one of the outcomes
\* success, early abort on a missing file, error abort, and at no time has
\* a run made more than six backend calls.
C16_Terminates ==
    /\ <>Terminated
    /\ [](Terminated => ExactlyOneOutcome)
    /\ [](Len(calls) <= 6)

C16_Witness ==
    /\ Terminated
    /\ Len(calls) = 6
    /\ ErrorAbortOutcome

\* What a request asks, apart from the release status and the answer.
RequestOf(c) == <<c.op, c.edit, c.version>>

\* C17: every upload, assign and commit of a run carries the one session id
\* captured from open, every assign carries the one version captured from
\* upload, and two assignments of a run differ in the release status only
\* (completed first, then draft).
C17_SessionAndVersionFixed ==
    /\ \A i \in DOMAIN calls :
          /\ i >= 2 => calls[i].edit = edit_id /\ edit_id \in EditIds
          /\ calls[i].op = "assign" =>
                /\ version_code \in VersionCodes
                /\ calls[i].version = Str(version_code)
    /\ \A i, j \in DOMAIN calls :
          (i < j /\ calls[i].op = "assign" /\ calls[j].op = "assign") =>
              /\ RequestOf(calls[i]) = RequestOf(calls[j])
              /\ calls[i].status = "completed"
              /\ calls[j].status = "draft"

C17_Witness ==
    /\ Terminated
    /\ Len(calls) = 6
    /\ calls[3].op = "assign" /\ calls[5].op = "assign"
    /\ edit_id = "S2"
    /\ version_code = MaxVersion

====
